---- MODULE Spec2Model ----
(***************************************************************************)
(* The grid engine of the Snake game (class Map of main.py): the grid, the *)
(* snake's head, tail and length, food placement and the move operation,   *)
(* together with the bounds-checked grid accessors.                        *)
(***************************************************************************)
EXTENDS Integers, Sequences, FiniteSets, TLC

\* Cell values.
EMPTY == 0
NORTH == 1
EAST == 2
SOUTH == 3
WEST == 4
NO_DIRECTION == 5
FOOD == 6

\* The width and the height of the presenter's engine: Map(30, 30).
MAP_SIZE == 30

\* The tick interval reset sets, and the step and the floor of on_eat.
INTERVAL_START == 500
INTERVAL_STEP == 10
INTERVAL_FLOOR == 10

\* Bounds of the model: the largest grid built, and the number of direct
\* grid writes explored by SpecAccess.
MaxWidth == 3
MaxHeight == 2
MaxWrites == 1

\* The width and the height of the engine the presenter builds in SpecGUI,
\* where it stands for the 30 of Map(30, 30).
SmallMap == 2

VARIABLES
    width, height,   \* Map.width, Map.height
    grid,            \* Map.grid: a list of width*height+1 cells, indexed from 0
    head, tail,      \* Map.head, Map.tail: points <<x, y>>
    length,          \* Map.length
    pc,              \* "ready": the last call returned or raised;
                     \* "hung": the last call is looping in place_food for ever
    op,              \* the last operation called
    direction,       \* the argument of the last move
    events,          \* the list the last returning move returned
    error,           \* the exception the last call raised, if any
    died,            \* some move on this instance has returned ["die"]
    point,           \* the point given to the last direct grid access
    value,           \* the value the last direct grid access returned or
                     \* was given
    writes,          \* the number of direct grid writes so far
    paused,          \* SnakeGUI.paused
    gui_direction,   \* SnakeGUI.direction: the pending direction
    interval,        \* SnakeGUI.interval
    calls            \* the number of Map.move calls the last tick made

engine == <<width, height, grid, head, tail, length>>
gui == <<paused, gui_direction, interval, calls>>
vars == <<width, height, grid, head, tail, length, pc, op, direction, events,
          error, died, point, value, writes, paused, gui_direction, interval,
          calls>>

Directions == {NORTH, EAST, SOUTH, WEST, NO_DIRECTION}
CellValues == EMPTY..FOOD

NoError == [kind |-> "none", arg |-> <<>>]
IndexError(p) == [kind |-> "IndexError", arg |-> p]
ValueError(d) == [kind |-> "ValueError", arg |-> <<d>>]

\* move_point raises ValueError exactly when the direction is none of the five.
move_point_raises(d) == d \notin Directions

\* The point one unit from p towards d (defined where move_point returns).
move_point(p, d) ==
    CASE d = NORTH -> <<p[1], p[2] - 1>>
      [] d = EAST -> <<p[1] + 1, p[2]>>
      [] d = SOUTH -> <<p[1], p[2] + 1>>
      [] d = WEST -> <<p[1] - 1, p[2]>>
      [] OTHER -> p

\* A bounds check that forgets the negative x coordinates.
_check_point_nonneg(p) ==
    \/ p[1] >= width
    \/ p[2] < 0 \/ p[2] >= height

\* _check_point(p) is TRUE exactly when Map._check_point raises IndexError(p).
_check_point(p) ==
    \/ p[1] < 0 \/ p[1] >= width
    \/ p[2] < 0 \/ p[2] >= height

\* A row-major index with the coordinates exchanged.
list_index_swapped(g, p) ==
    LET i == (p[1] * width) + p[2]
    IN  IF i < 0 THEN i + (width * height) + 1 ELSE i

\* The list position of a point, as Python indexes a list: a negative index
\* counts from the end.
list_index(g, p) ==
    LET i == (p[2] * width) + p[1]
    IN  IF i < 0 THEN i + (width * height) + 1 ELSE i

\* Map.__getitem__ past its bounds check: grid[(y * width) + x].
getitem(g, p) ==
    IF list_index(g, p) \in DOMAIN g THEN g[list_index(g, p)] ELSE EMPTY

\* Map.__setitem__ past its bounds check: grid[(y * width) + x] = value.
setitem(g, p, v) ==
    IF list_index(g, p) \in DOMAIN g
    THEN [g EXCEPT ![list_index(g, p)] = v]
    ELSE g

\* A sampler that never leaves the first column.
random_point_first_column == {0} \X (0..(height - 1))

\* The points random_point can return.
random_point == (0..(width - 1)) \X (0..(height - 1))

\* Food placement that takes the first sampled point, empty or not.
place_food_points_any(g) == random_point

\* The points at which place_food can end: the sampled points whose cell is
\* EMPTY. With none, place_food never returns.
place_food_points(g) == {p \in random_point : getitem(g, p) = EMPTY}

\* The grids place_food can leave.
place_food(g) == {setitem(g, p, FOOD) : p \in place_food_points(g)}

\* A collision check that takes a NO_DIRECTION cell for a free one.
check_collision_nodir(g, p) ==
    IF _check_point(p) THEN TRUE
    ELSE IF getitem(g, p) = FOOD THEN FALSE
    ELSE getitem(g, p) # EMPTY /\ getitem(g, p) # NO_DIRECTION

\* A collision check that lets the head enter the cell the tail occupies.
check_collision_tailfree(g, p) ==
    IF _check_point(p) THEN TRUE
    ELSE IF getitem(g, p) = FOOD THEN FALSE
    ELSE getitem(g, p) # EMPTY /\ p # tail

\* Map.check_collision(point).
check_collision(g, p) ==
    IF _check_point(p) THEN TRUE
    ELSE IF getitem(g, p) = FOOD THEN FALSE
    ELSE getitem(g, p) # EMPTY

\* The outcome of a call: the engine fields it leaves, and how it ended.
Outcome(g, hd, tl, len, ev, err, state) ==
    [grid |-> g, head |-> hd, tail |-> tl, length |-> len,
     events |-> ev, error |-> err, pc |-> state]

\* Eating that never writes the direction into the new head cell.
move_eat_nowrite(g, new_point, d) ==
    IF place_food(g) = {}
    THEN {Outcome(g, new_point, tail, length, events, NoError, "hung")}
    ELSE {Outcome(g2, new_point, tail, length + 1,
                  <<"eat">>, NoError, "ready") : g2 \in place_food(g)}

\* Eating that does not grow the snake.
move_eat_nogrow(g, new_point, d) ==
    IF place_food(g) = {}
    THEN {Outcome(g, new_point, tail, length, events, NoError, "hung")}
    ELSE {Outcome(setitem(g2, new_point, d), new_point, tail, length,
                  <<"eat">>, NoError, "ready") : g2 \in place_food(g)}

\* move, lines 85-88 and 94: the new head cell held FOOD. g is the grid after
\* line 82.
move_eat(g, new_point, d) ==
    IF place_food(g) = {}
    THEN {Outcome(g, new_point, tail, length, events, NoError, "hung")}
    ELSE {Outcome(setitem(g2, new_point, d), new_point, tail, length + 1,
                  <<"eat">>, NoError, "ready") : g2 \in place_food(g)}

\* A tail advance that clears the cell the tail moves to, not the one it
\* leaves.
move_tail_clear_new(g, new_point, d) ==
    IF _check_point(tail)
    THEN {Outcome(g, new_point, tail, length, events, IndexError(tail), "ready")}
    ELSE IF move_point_raises(getitem(g, tail))
    THEN {Outcome(g, new_point, tail, length, events,
                  ValueError(getitem(g, tail)), "ready")}
    ELSE LET new_tail == move_point(tail, getitem(g, tail))
             g2 == setitem(g, new_tail, EMPTY)
         IN  {Outcome(setitem(g2, new_point, d), new_point, new_tail, length,
                      <<>>, NoError, "ready")}

\* A tail advance that clears the tail cell before it reads the direction
\* stored there.
move_tail_clear_first(g, new_point, d) ==
    IF _check_point(tail)
    THEN {Outcome(g, new_point, tail, length, events, IndexError(tail), "ready")}
    ELSE {Outcome(setitem(g, tail, EMPTY), new_point, tail, length, events,
                  ValueError(EMPTY), "ready")}

\* A move that writes the new head but leaves the tail where it was.
move_tail_stay(g, new_point, d) ==
    {Outcome(setitem(g, new_point, d), new_point, tail, length, <<>>,
             NoError, "ready")}

\* A tail advance that leaves the old tail cell as it was.
move_tail_keep(g, new_point, d) ==
    IF _check_point(tail)
    THEN {Outcome(g, new_point, tail, length, events, IndexError(tail), "ready")}
    ELSE IF move_point_raises(getitem(g, tail))
    THEN {Outcome(g, new_point, tail, length, events,
                  ValueError(getitem(g, tail)), "ready")}
    ELSE LET new_tail == move_point(tail, getitem(g, tail))
         IN  {Outcome(setitem(g, new_point, d), new_point, new_tail, length,
                      <<>>, NoError, "ready")}

\* move, lines 89-92 and 94: the tail advances. g is the grid after line 82.
move_tail(g, new_point, d) ==
    IF _check_point(tail)
    THEN {Outcome(g, new_point, tail, length, events, IndexError(tail), "ready")}
    ELSE IF move_point_raises(getitem(g, tail))
    THEN {Outcome(g, new_point, tail, length, events,
                  ValueError(getitem(g, tail)), "ready")}
    ELSE LET new_tail == move_point(tail, getitem(g, tail))
             g2 == setitem(g, tail, EMPTY)
         IN  {Outcome(setitem(g2, new_point, d), new_point, new_tail, length,
                      <<>>, NoError, "ready")}

\* move, lines 74-77: the collision, which returns ["die"] before any write.
move_die == {Outcome(grid, head, tail, length, <<"die">>, NoError, "ready")}

\* A move that records the direction in the old head cell only on the first
\* move of the game.
move_first_only(d) ==
    LET new_point == move_point(head, d)
    IN  IF check_collision(grid, new_point)
        THEN move_die
        ELSE LET g1 == IF getitem(grid, head) = NO_DIRECTION
                       THEN setitem(grid, head, d)
                       ELSE grid
             IN  IF getitem(g1, new_point) = FOOD
                 THEN move_eat(g1, new_point, d)
                 ELSE move_tail(g1, new_point, d)

\* A move that writes the direction into the head cell before it checks for
\* the collision.
move_write_first(d) ==
    LET new_point == move_point(head, d)
        g1 == setitem(grid, head, d)
    IN  IF check_collision(grid, new_point)
        THEN {Outcome(g1, head, tail, length, <<"die">>, NoError, "ready")}
        ELSE IF getitem(g1, new_point) = FOOD
             THEN move_eat(g1, new_point, d)
             ELSE move_tail(g1, new_point, d)

\* Map.move(direction): the set of outcomes, one per food placement.
move(d) ==
    LET new_point == move_point(head, d)
    IN  IF check_collision(grid, new_point)
        THEN move_die
        ELSE LET g1 == setitem(grid, head, d)
             IN  IF getitem(g1, new_point) = FOOD
                 THEN move_eat(g1, new_point, d)
                 ELSE move_tail(g1, new_point, d)

\* A centre rounded up instead of down.
centre_ceil(w, h) == <<(w + 1) \div 2, (h + 1) \div 2>>

\* The centre of the board: (floor(width / 2), floor(height / 2)).
centre(w, h) == <<w \div 2, h \div 2>>

\* Map.__init__(w, h): the snake is one NO_DIRECTION cell at the centre and
\* one food item is placed; on a grid with no other cell place_food hangs.
Init ==
    \E w \in 1..MaxWidth, h \in 1..MaxHeight :
        /\ width = w
        /\ height = h
        /\ head = centre(w, h)
        /\ tail = head
        /\ length = 1
        /\ LET g0 == [i \in 0..(w * h) |-> EMPTY]
               g1 == setitem(g0, head, NO_DIRECTION)
           IN  IF place_food(g1) = {}
               THEN grid = g1 /\ pc = "hung"
               ELSE grid \in place_food(g1) /\ pc = "ready"
        /\ op = "construct"
        /\ direction = NO_DIRECTION
        /\ events = <<>>
        /\ error = NoError
        /\ died = FALSE
        /\ point = <<0, 0>>
        /\ value = EMPTY
        /\ writes = 0
        /\ paused = TRUE
        /\ gui_direction = NORTH
        /\ interval = INTERVAL_START
        /\ calls = 0

\* A call of move(d) on the engine.
Move(d) ==
    /\ pc = "ready"
    /\ \E o \in move(d) :
        /\ grid' = o.grid
        /\ head' = o.head
        /\ tail' = o.tail
        /\ length' = o.length
        /\ events' = o.events
        /\ error' = o.error
        /\ pc' = o.pc
        /\ died' = (died \/ (o.pc = "ready" /\ o.error = NoError
                             /\ o.events = <<"die">>))
    /\ op' = "move"
    /\ direction' = d
    /\ UNCHANGED <<width, height, point, value, writes, gui>>

Next == \E d \in Directions : Move(d)

Spec == Init /\ [][Next]_vars

\* The points a caller reads: SnakeGUI.draw reads every point of the grid and
\* of the ring of wall points around it.
AccessPoints == ((0 - 1)..width) \X ((0 - 1)..height)

\* The values written directly: an empty cell, a snake cell and food.
WriteValues == {EMPTY, NORTH, FOOD}

\* Map.__getitem__(p): the exception raised, if any, and the value returned
\* (EMPTY stands for no value when the call raises).
Map_getitem(p) ==
    IF _check_point(p)
    THEN [error |-> IndexError(p), value |-> EMPTY]
    ELSE [error |-> NoError, value |-> getitem(grid, p)]

\* Map.__setitem__(p, v): the exception raised, if any, and the grid left.
Map_setitem(p, v) ==
    IF _check_point(p)
    THEN [error |-> IndexError(p), grid |-> grid]
    ELSE [error |-> NoError, grid |-> setitem(grid, p, v)]

\* A call of Map.__getitem__(p).
GetItem(p) ==
    /\ pc = "ready"
    /\ error' = Map_getitem(p).error
    /\ value' = Map_getitem(p).value
    /\ op' = "getitem"
    /\ point' = p
    /\ UNCHANGED <<engine, pc, direction, events, died, writes, gui>>

\* A call of Map.__setitem__(p, v).
SetItem(p, v) ==
    /\ pc = "ready"
    /\ writes < MaxWrites
    /\ error' = Map_setitem(p, v).error
    /\ grid' = Map_setitem(p, v).grid
    /\ op' = "setitem"
    /\ point' = p
    /\ value' = v
    /\ writes' = writes + 1
    /\ UNCHANGED <<width, height, head, tail, length, pc, direction, events,
                   died, gui>>

NextAccess ==
    \/ \E p \in AccessPoints : GetItem(p)
    \/ \E p \in AccessPoints, v \in WriteValues : SetItem(p, v)

\* The grid accessors called directly on a freshly constructed engine.
SpecAccess == Init /\ [][NextAccess]_vars

(***************************************************************************)
(* The presenter (class SnakeGUI): the timer tick, the key handler and the *)
(* pause button.  SpecGUI drives a real engine of a small size; the        *)
(* presenter's own engine is Map(30, 30).                                  *)
(***************************************************************************)

\* The grids Map.__init__ can leave on a grid of the current size.
new_grid ==
    LET g0 == [i \in 0..(width * height) |-> EMPTY]
        g1 == setitem(g0, centre(width, height), NO_DIRECTION)
    IN  place_food(g1)

\* The engines Map(width, height) can return, at the current size.
new_map ==
    {[grid |-> g, head |-> centre(width, height),
      tail |-> centre(width, height), length |-> 1] : g \in new_grid}

\* The presenter as SnakeGUI.__init__ leaves it, but for the engine: paused,
\* heading North, at the starting interval.
InitPresenter ==
    /\ pc = "ready"
    /\ op = "construct"
    /\ direction = NO_DIRECTION
    /\ events = <<>>
    /\ error = NoError
    /\ died = FALSE
    /\ point = <<0, 0>>
    /\ value = EMPTY
    /\ writes = 0
    /\ paused = TRUE
    /\ gui_direction = NORTH
    /\ interval = INTERVAL_START
    /\ calls = 0

\* SnakeGUI.__init__ with an engine of the small size.
InitGUI ==
    /\ width = SmallMap
    /\ height = SmallMap
    /\ \E m \in new_map :
        /\ grid = m.grid
        /\ head = m.head
        /\ tail = m.tail
        /\ length = m.length
    /\ InitPresenter

\* What a handler of the presenter leaves: the engine self.map refers to and
\* the presenter's own fields.
Presenter(m, dead, dir, int, stop) ==
    [grid |-> m.grid, head |-> m.head, tail |-> m.tail, length |-> m.length,
     died |-> dead, gui_direction |-> dir, interval |-> int, paused |-> stop]

\* An on_eat that shortens the interval without looking at the floor.
on_eat_nofloor(i) == i - INTERVAL_STEP

\* SnakeGUI.on_eat: the interval it leaves.
on_eat(i) == IF i > INTERVAL_FLOOR THEN i - INTERVAL_STEP ELSE i

\* A reset that heads North again but keeps the interval of the lost game.
reset_keep_interval == [gui_direction |-> NORTH, interval |-> interval]

\* SnakeGUI.reset: the pending direction and the interval it sets.
reset == [gui_direction |-> NORTH, interval |-> INTERVAL_START]

\* An on_die that resets and pauses but keeps the dead engine.
on_die_keep_map(maps) ==
    {Presenter([grid |-> grid, head |-> head, tail |-> tail,
                length |-> length],
               TRUE, reset.gui_direction, reset.interval, TRUE)}

\* SnakeGUI.on_die: one of the new engines `maps` replaces the dead one,
\* reset() runs and the game is paused.
on_die(maps) ==
    {Presenter(m, FALSE, reset.gui_direction, reset.interval, TRUE) :
        m \in maps}

\* SnakeGUI._tick, lines 223-227: the handlers run for the events of a move
\* that returned with outcome o.
tick_events(o, maps) ==
    IF o.events = <<"eat">>
    THEN {Presenter(o, died, gui_direction, on_eat(interval), paused)}
    ELSE IF o.events = <<"die">>
    THEN on_die(maps)
    ELSE {Presenter(o, died, gui_direction, interval, paused)}

\* The presenter after a tick's move with outcome o: the handlers run when
\* the move returned; a move that hangs or raises leaves what it had written.
after_move(o, maps) ==
    IF o.pc = "ready" /\ o.error = NoError
    THEN tick_events(o, maps)
    ELSE {Presenter(o, died, gui_direction, interval, paused)}

\* A tick that moves the engine whether the game is paused or not.
tick_moves_always == TRUE

\* SnakeGUI._tick, line 222: the tick moves the engine unless paused.
tick_moves == ~paused

\* SnakeGUI._tick with `moves` for what Map.move(d) can do: the timer fires
\* and, unless the game is paused, one move in direction d is made and the
\* handlers of its events run.
tick(d, moves, maps) ==
    /\ pc = "ready"
    /\ op' = "tick"
    /\ IF tick_moves
       THEN /\ calls' = 1
            /\ direction' = d
            /\ \E o \in moves :
                /\ events' = o.events
                /\ error' = o.error
                /\ pc' = o.pc
                /\ \E s \in after_move(o, maps) :
                    /\ grid' = s.grid
                    /\ head' = s.head
                    /\ tail' = s.tail
                    /\ length' = s.length
                    /\ died' = s.died
                    /\ gui_direction' = s.gui_direction
                    /\ interval' = s.interval
                    /\ paused' = s.paused
       ELSE /\ calls' = 0
            /\ UNCHANGED <<grid, head, tail, length, pc, direction, events,
                           error, died, paused, gui_direction, interval>>
    /\ UNCHANGED <<width, height, point, value, writes>>

\* A tick that moves North whatever the pending direction is.
Tick_north == tick(NORTH, move(NORTH), new_map)

\* A tick of the presenter on its engine: the pending direction is passed to
\* move.
Tick == tick(gui_direction, move(gui_direction), new_map)

\* The key events: the character and the key symbol of each.
Keys ==
    {[char |-> "w", keysym |-> "w"], [char |-> "", keysym |-> "Up"],
     [char |-> "d", keysym |-> "d"], [char |-> "", keysym |-> "Right"],
     [char |-> "s", keysym |-> "s"], [char |-> "", keysym |-> "Down"],
     [char |-> "a", keysym |-> "a"], [char |-> "", keysym |-> "Left"],
     [char |-> " ", keysym |-> "space"], [char |-> "x", keysym |-> "x"]}

\* SnakeGUI._on_key(event): the pending direction and the pause flag it
\* leaves.
on_key(k) ==
    IF k.char = "w" \/ k.keysym = "Up"
    THEN [gui_direction |-> NORTH, paused |-> paused]
    ELSE IF k.char = "d" \/ k.keysym = "Right"
    THEN [gui_direction |-> EAST, paused |-> paused]
    ELSE IF k.char = "s" \/ k.keysym = "Down"
    THEN [gui_direction |-> SOUTH, paused |-> paused]
    ELSE IF k.char = "a" \/ k.keysym = "Left"
    THEN [gui_direction |-> WEST, paused |-> paused]
    ELSE IF k.char = " "
    THEN [gui_direction |-> gui_direction, paused |-> ~paused]
    ELSE [gui_direction |-> gui_direction, paused |-> paused]

\* A key event; loop() runs the first tick before the main loop handles any
\* event.
Key(k) ==
    /\ pc = "ready"
    /\ op # "construct"
    /\ op' = "key"
    /\ gui_direction' = on_key(k).gui_direction
    /\ paused' = on_key(k).paused
    /\ UNCHANGED <<engine, pc, direction, events, error, died, point, value,
                   writes, interval, calls>>

\* SnakeGUI._on_button: the pause button.
Button ==
    /\ pc = "ready"
    /\ op # "construct"
    /\ op' = "button"
    /\ paused' = ~paused
    /\ UNCHANGED <<engine, pc, direction, events, error, died, point, value,
                   writes, gui_direction, interval, calls>>

NextGUI ==
    \/ Tick
    \/ \E k \in Keys : Key(k)
    \/ Button

SpecGUI == InitGUI /\ [][NextGUI]_vars

(***************************************************************************)
(* The engine with place_food run one pass of its loop at a time: a call   *)
(* that has entered place_food is at pc = "placing" until a sampled point  *)
(* holds EMPTY.  Sampling is fair: random_point keeps returning every      *)
(* point of the grid.                                                      *)
(***************************************************************************)

\* Map.__init__ up to its call of place_food.
InitFood ==
    \E w \in 1..MaxWidth, h \in 1..MaxHeight :
        /\ width = w
        /\ height = h
        /\ head = centre(w, h)
        /\ tail = head
        /\ length = 1
        /\ grid = setitem([i \in 0..(w * h) |-> EMPTY], head, NO_DIRECTION)
        /\ pc = "placing"
        /\ op = "construct"
        /\ direction = NO_DIRECTION
        /\ events = <<>>
        /\ error = NoError
        /\ died = FALSE
        /\ point = <<0, 0>>
        /\ value = EMPTY
        /\ writes = 0
        /\ paused = TRUE
        /\ gui_direction = NORTH
        /\ interval = INTERVAL_START
        /\ calls = 0

\* move(d) reaches its call of place_food: no collision, and the new head
\* cell holds FOOD.
move_places_food(d) ==
    /\ ~check_collision(grid, move_point(head, d))
    /\ getitem(setitem(grid, head, d), move_point(head, d)) = FOOD

\* A call of move(d), up to its call of place_food if it makes one.
MoveFood(d) ==
    /\ pc = "ready"
    /\ IF move_places_food(d)
       THEN /\ grid' = setitem(grid, head, d)
            /\ head' = move_point(head, d)
            /\ events' = <<>>
            /\ error' = NoError
            /\ pc' = "placing"
            /\ UNCHANGED <<tail, length, died>>
       ELSE \E o \in move(d) :
            /\ grid' = o.grid
            /\ head' = o.head
            /\ tail' = o.tail
            /\ length' = o.length
            /\ events' = o.events
            /\ error' = o.error
            /\ pc' = o.pc
            /\ died' = (died \/ (o.pc = "ready" /\ o.error = NoError
                                 /\ o.events = <<"die">>))
    /\ op' = "move"
    /\ direction' = d
    /\ UNCHANGED <<width, height, point, value, writes, gui>>

\* One pass of the loop of place_food with the sampled point p.  A point
\* whose cell is not EMPTY is rejected and nothing changes; an EMPTY cell is
\* set to FOOD, place_food returns, and the call that made it runs to its
\* end: Map.__init__ returns, move grows the snake, records "eat" and writes
\* the new head cell.
Sample(p) ==
    /\ pc = "placing"
    /\ p \in random_point
    /\ IF getitem(grid, p) # EMPTY
       THEN UNCHANGED vars
       ELSE /\ pc' = "ready"
            /\ IF op = "construct"
               THEN /\ grid' = setitem(grid, p, FOOD)
                    /\ UNCHANGED <<length, events>>
               ELSE /\ grid' = setitem(setitem(grid, p, FOOD), head,
                                       direction)
                    /\ length' = length + 1
                    /\ events' = <<"eat">>
            /\ UNCHANGED <<width, height, head, tail, op, direction, error,
                           died, point, value, writes, gui>>

NextFood ==
    \/ \E d \in Directions : MoveFood(d)
    \/ \E p \in (0..(MaxWidth - 1)) \X (0..(MaxHeight - 1)) : Sample(p)

\* Every point keeps being sampled.
FairSampling ==
    \A p \in (0..(MaxWidth - 1)) \X (0..(MaxHeight - 1)) :
        WF_vars(Sample(p))

SpecFood == InitFood /\ [][NextFood]_vars /\ FairSampling

(***************************************************************************)
(* The engine under every move on the small grids, and the engine of       *)
(* Map(30, 30) moved North from its start with no food in the path of its  *)
(* first 14 moves.                                                         *)
(***************************************************************************)

\* The cells the head enters in 14 North moves from the centre of
\* Map(30, 30).
north_path == {<<MAP_SIZE \div 2, y>> : y \in 1..14}

\* Map(30, 30) as constructed, the food outside the path.
InitNorth ==
    /\ width = MAP_SIZE
    /\ height = MAP_SIZE
    /\ \E m \in new_map :
        /\ grid = m.grid
        /\ head = m.head
        /\ tail = m.tail
        /\ length = m.length
    /\ \A p \in north_path : getitem(grid, p) # FOOD
    /\ InitPresenter

InitScenario == Init \/ InitNorth

\* A move in any direction on a small grid.
MoveSmall == width <= MaxWidth /\ \E d \in Directions : Move(d)

\* A North move on the grid of Map(30, 30).
MoveNorth == width = MAP_SIZE /\ Move(NORTH)

NextScenario == MoveSmall \/ MoveNorth

SpecScenario == InitScenario /\ [][NextScenario]_vars

(***************************************************************************)
(* The presenter of the real size over the events of its engine: the grid  *)
(* is left out, and of the engine only the length and the event of each    *)
(* move are kept.  A game of Map(30, 30) can show every sequence of events *)
(* this specification produces up to the capacity of the board.           *)
(***************************************************************************)

\* The engine with the grid left out.
no_grid == [i \in 0..0 |-> EMPTY]

\* Map(30, 30) with the grid left out.
new_map_events ==
    {[grid |-> no_grid, head |-> centre(MAP_SIZE, MAP_SIZE),
      tail |-> centre(MAP_SIZE, MAP_SIZE), length |-> 1]}

\* What Map.move can return and the length it leaves: [], ["die"], and
\* ["eat"] while place_food still finds an EMPTY cell, which it does when the
\* grown snake and the eaten Food cell do not fill the board.
move_events ==
    {Outcome(grid, head, tail, length, <<>>, NoError, "ready"),
     Outcome(grid, head, tail, length, <<"die">>, NoError, "ready")}
    \cup (IF length + 2 <= width * height
          THEN {Outcome(grid, head, tail, length + 1, <<"eat">>, NoError,
                        "ready")}
          ELSE {})

InitInterval ==
    /\ width = MAP_SIZE
    /\ height = MAP_SIZE
    /\ \E m \in new_map_events :
        /\ grid = m.grid
        /\ head = m.head
        /\ tail = m.tail
        /\ length = m.length
    /\ InitPresenter

\* A tick of the presenter over the events of its engine.
TickEvents == tick(gui_direction, move_events, new_map_events)

NextInterval ==
    \/ TickEvents
    \/ \E k \in Keys : Key(k)
    \/ Button

SpecInterval == InitInterval /\ [][NextInterval]_vars

(***************************************************************************)
(* The properties.  They read the grid through Cell, the row-major cell of *)
(* an in-bounds point, and not through the accessors they are about.       *)
(***************************************************************************)
Points == (0..(width - 1)) \X (0..(height - 1))
Cell(g, p) == g[(p[2] * width) + p[1]]
FoodCells(g) == {p \in Points : Cell(g, p) = FOOD}
EmptyCells(g) == {p \in Points : Cell(g, p) = EMPTY}
NonEmptyCells(g) == {p \in Points : Cell(g, p) # EMPTY}

\* The last call returned (it neither hangs nor raised).
Returned == pc = "ready" /\ error = NoError

\* The point reached from tail by n steps, each in the direction stored in
\* the cell stood on; a step from outside the grid stays where it is.
RECURSIVE PathPoint(_)
PathPoint(n) ==
    IF n = 0 THEN tail
    ELSE LET q == PathPoint(n - 1)
         IN  IF q \in Points THEN move_point(q, Cell(grid, q)) ELSE q

\* C1: after Construct and after every move that returns, exactly one grid
\* cell holds Food.
ExactlyOneFood == Returned => Cardinality(FoodCells(grid)) = 1

OneFoodAfterEating ==
    /\ Returned /\ op = "move" /\ events = <<"eat">> /\ length >= 3
    /\ Cardinality(FoodCells(grid)) = 1

\* C2: length-1 steps from tail along the stored directions arrive at head,
\* and every cell on that path is inside the grid and not Empty.
TailPathReachesHead ==
    Returned =>
        /\ PathPoint(length - 1) = head
        /\ \A i \in 0..(length - 1) :
            /\ PathPoint(i) \in Points
            /\ Cell(grid, PathPoint(i)) # EMPTY

LongSnakeMoved ==
    /\ Returned /\ op = "move" /\ events = <<>> /\ length >= 4
    /\ PathPoint(length - 1) = head
    /\ head[1] # tail[1] /\ head[2] # tail[2]

\* C3, as claimed: after a move that does not return ["die"], the number of
\* non-empty cells is exactly length.
NonEmptyCountIsLength ==
    (Returned /\ op = "move" /\ events # <<"die">>) =>
        Cardinality(NonEmptyCells(grid)) = length

\* C3, amended: after a move that does not return ["die"], the number of
\* non-empty cells is exactly length + 1, the snake's cells and the Food cell.
NonEmptyCountIsLengthPlusFood ==
    (Returned /\ op = "move" /\ events # <<"die">>) =>
        /\ Cardinality(NonEmptyCells(grid)) = length + 1
        /\ Cardinality(NonEmptyCells(grid) \ FoodCells(grid)) = length

CountedAfterTailAdvance ==
    /\ Returned /\ op = "move" /\ events = <<>> /\ length = 3
    /\ Cardinality(NonEmptyCells(grid)) = 4

\* C4: length never decreases; a move that returns ["eat"] increases it by
\* exactly 1 and a move that returns [] or ["die"] leaves it unchanged.
LengthGrowsOnlyByEating ==
    [][op' = "move" =>
        /\ length' >= length
        /\ (Returned' /\ events' = <<"eat">>) => length' = length + 1
        /\ (Returned' /\ events' \in {<<>>, <<"die">>}) => length' = length
        /\ length' # length => (Returned' /\ events' = <<"eat">>)]_vars

GrownTwice == Returned /\ op = "move" /\ events = <<"eat">> /\ length = 3

\* C5: a move whose new head point is outside the grid returns ["die"] and
\* leaves every grid cell, head, tail and length as they were.
WallMoveDiesUnchanged ==
    [][(op' = "move" /\ move_point(head, direction') \notin Points) =>
        /\ Returned'
        /\ events' = <<"die">>
        /\ UNCHANGED engine]_vars

DiedAtWall ==
    /\ Returned /\ op = "move" /\ events = <<"die">> /\ length >= 2
    /\ move_point(head, direction) \notin Points
    /\ move_point(head, direction)[1] = 0 - 1

\* C6: a move that returns and whose new head point holds Food returns
\* ["eat"], increases length by 1, leaves tail, makes head the old Food cell,
\* which now holds the move direction, and leaves exactly one Food cell, at
\* another cell that was Empty before the move.
EatingMove ==
    [][(op' = "move" /\ pc' = "ready"
        /\ move_point(head, direction') \in Points
        /\ Cell(grid, move_point(head, direction')) = FOOD) =>
        /\ error' = NoError
        /\ events' = <<"eat">>
        /\ length' = length + 1
        /\ tail' = tail
        /\ head' = move_point(head, direction')
        /\ Cell(grid', head') = direction'
        /\ \E q \in EmptyCells(grid) :
            /\ q # head'
            /\ FoodCells(grid') = {q}]_vars

AteWithLongSnake ==
    /\ Returned /\ op = "move" /\ events = <<"eat">> /\ length >= 3
    /\ Cell(grid, head) = direction
    /\ head # tail

\* C7: a move whose new head point is in the grid and holds a snake value
\* (neither Empty nor Food), the tail's cell included, returns ["die"].
BodyMoveDies ==
    [][(op' = "move"
        /\ move_point(head, direction') \in Points
        /\ Cell(grid, move_point(head, direction')) \notin {EMPTY, FOOD}) =>
        /\ Returned'
        /\ events' = <<"die">>]_vars

DiedOnOwnTail ==
    /\ Returned /\ op = "move" /\ events = <<"die">>
    /\ length >= 4
    /\ head # tail
    /\ move_point(head, direction) = tail

\* A point a move cannot enter: outside the grid, or holding a snake value.
Blocked(g, p) == p \notin Points \/ Cell(g, p) \notin {EMPTY, FOOD}

\* C8, as claimed: once a move has returned ["die"], every later move on the
\* instance returns ["die"] and changes nothing.
DeadIsTerminal ==
    [][(died /\ op' = "move") =>
        /\ Returned'
        /\ events' = <<"die">>
        /\ UNCHANGED engine]_vars

\* C8, amended: a move that returns ["die"] changes nothing, and a later move
\* on the instance returns ["die"] exactly when its own new head point is
\* outside the grid or holds a snake value; otherwise it moves the head.
DeathChangesNothing ==
    [][op' = "move" =>
        /\ (Returned' /\ events' = <<"die">>) => UNCHANGED engine
        /\ died =>
            IF Blocked(grid, move_point(head, direction'))
            THEN Returned' /\ events' = <<"die">> /\ UNCHANGED engine
            ELSE /\ head' = move_point(head, direction')
                 /\ Returned' => events' # <<"die">>]_vars

AteAfterDeath == died /\ Returned /\ op = "move" /\ events = <<"eat">>

\* C9: the state Construct(width, height) returns has head = tail at
\* (floor(width/2), floor(height/2)), length 1, NoDirection in the head cell,
\* one Food cell elsewhere and every other cell Empty.
ConstructedState ==
    (op = "construct" /\ pc = "ready") =>
        /\ error = NoError
        /\ 2 * head[1] \in {width, width - 1}
        /\ 2 * head[2] \in {height, height - 1}
        /\ tail = head
        /\ length = 1
        /\ \E f \in Points \ {head} :
            \A q \in Points :
                Cell(grid, q) = IF q = head THEN NO_DIRECTION
                                ELSE IF q = f THEN FOOD
                                ELSE EMPTY

ConstructedWide ==
    /\ op = "construct" /\ pc = "ready"
    /\ width = 3 /\ height = 2
    /\ head = <<1, 1>>
    /\ Cell(grid, <<2, 0>>) = FOOD

\* C10: a grid read or write at a point outside the grid raises the
\* out-of-bounds error carrying that point and changes nothing; a read inside
\* the grid raises nothing and returns the value stored for that point, a
\* write inside the grid having stored its value at that point and no other.
BoundsCheckedAccess ==
    [][op' \in {"getitem", "setitem"} =>
        IF point' \notin Points
        THEN error' = IndexError(point') /\ UNCHANGED engine
        ELSE /\ error' = NoError
             /\ op' = "getitem" =>
                 /\ value' = Cell(grid, point')
                 /\ UNCHANGED engine
             /\ op' = "setitem" =>
                 /\ \A q \in Points :
                     Cell(grid', q) = IF q = point' THEN value'
                                      ELSE Cell(grid, q)
                 /\ UNCHANGED <<width, height, head, tail, length>>]_vars

NegativeReadRaised ==
    /\ op = "getitem" /\ writes = 1
    /\ point[1] < 0
    /\ error = IndexError(point)

\* The cells holding a snake value, and the cells on the stored path.
SnakeCells(g) == {p \in Points : Cell(g, p) \notin {EMPTY, FOOD}}
PathCells == {PathPoint(i) : i \in 0..(length - 1)}

\* C17: the cells holding a snake value number exactly length and are
\* exactly the cells on the stored-direction path from tail to head.
SnakeIsThePath ==
    Returned =>
        /\ Cardinality(SnakeCells(grid)) = length
        /\ SnakeCells(grid) = PathCells

SnakeFoldedBack ==
    /\ Returned /\ op = "move" /\ events = <<>> /\ length = 4
    /\ head[1] = tail[1]
    /\ SnakeCells(grid) = PathCells

\* C18: move(NoDirection) returns ["die"] and changes nothing, the head
\* point being an occupied cell, even on the first move after Construct.
NoDirectionMoveDies ==
    [][(op' = "move" /\ direction' = NO_DIRECTION) =>
        /\ Cell(grid, head) \notin {EMPTY, FOOD}
        /\ Returned'
        /\ events' = <<"die">>
        /\ UNCHANGED engine]_vars

NoDirectionFirstMove ==
    /\ Returned /\ op = "move" /\ direction = NO_DIRECTION
    /\ events = <<"die">>
    /\ Cell(grid, head) = NO_DIRECTION

\* C19: head and tail stay inside the grid, the tail cell holds one of the
\* four directions whenever the tail is advanced, and a move raises nothing:
\* when it returns, it returns [], ["eat"] or ["die"].
MoveNeverRaises ==
    /\ [](head \in Points /\ tail \in Points)
    /\ [][op' = "move" =>
            /\ error' = NoError
            /\ pc' = "ready" => events' \in {<<>>, <<"eat">>, <<"die">>}
            /\ (pc' = "ready" /\ events' = <<>>) =>
                (IF tail = head THEN direction' ELSE Cell(grid, tail))
                    \in {NORTH, EAST, SOUTH, WEST}]_vars

TailAdvancedOnLongSnake ==
    /\ Returned /\ op = "move" /\ events = <<>> /\ length = 3
    /\ Cell(grid, tail) \in {NORTH, EAST, SOUTH, WEST}
    /\ tail # head

\* C11: a tick whose move returns ["die"] leaves the presenter with a newly
\* constructed engine of its size (length 1, head and tail at the centre, the
\* head cell NO_DIRECTION, one Food cell, nothing else), the pending
\* direction North, the interval 500 and the game paused; the engine the
\* presenter holds is never one that has died.  The centre of Map(30, 30) is
\* (15, 15).
PresenterRestartsOnDie ==
    /\ centre(MAP_SIZE, MAP_SIZE) = <<15, 15>>
    /\ [](~died)
    /\ [][(op' = "tick" /\ calls' = 1 /\ events' = <<"die">>) =>
            /\ length' = 1
            /\ head' = <<width \div 2, height \div 2>>
            /\ tail' = head'
            /\ Cell(grid', head') = NO_DIRECTION
            /\ Cardinality(FoodCells(grid')) = 1
            /\ Cardinality(NonEmptyCells(grid')) = 2
            /\ gui_direction' = NORTH
            /\ interval' = 500
            /\ paused'
            /\ Returned']_vars

RestartedAfterDeath ==
    /\ op = "tick" /\ calls = 1 /\ events = <<"die">>
    /\ direction = SOUTH /\ gui_direction = NORTH
    /\ length = 1 /\ paused

\* C13 as stated: a key event changes nothing but the pending direction.
KeyOnlySetsDirection ==
    [][op' = "key" => UNCHANGED <<engine, paused, interval>>]_vars

\* C13: a key event never changes the engine; it changes the pending
\* direction or the pause flag, never both, and nothing else; a tick that
\* moves passes the pending direction to move, and the head advances that
\* way.
KeyNeverTouchesEngine ==
    [][/\ op' = "key" =>
            /\ UNCHANGED <<engine, interval, died, pc, events, error>>
            /\ gui_direction' = gui_direction \/ paused' = paused
            /\ gui_direction' \in {NORTH, EAST, SOUTH, WEST}
       /\ (op' = "tick" /\ calls' = 1) =>
            /\ direction' = gui_direction
            /\ (Returned' /\ events' # <<"die">>) =>
                 head' = move_point(head, gui_direction)]_vars

KeyTurnedTheSnake ==
    /\ op = "tick" /\ calls = 1 /\ Returned /\ events = <<>>
    /\ direction = WEST /\ gui_direction = WEST
    /\ head = <<0, 1>>

\* C14 as stated: every tick makes exactly one move.
EveryTickMoves == [][op' = "tick" => calls' = 1]_vars

\* C14: a tick while the game is not paused makes exactly one move on the
\* current engine; a tick while it is paused makes none and leaves the engine
\* as it was.
TickMovesUnlessPaused ==
    [][op' = "tick" =>
        IF paused
        THEN calls' = 0 /\ UNCHANGED engine
        ELSE /\ calls' = 1
             /\ (Returned' /\ events' # <<"die">>) =>
                  /\ head' = move_point(head, direction')
                  /\ length' \in {length, length + 1}
             /\ (Returned' /\ events' = <<"die">>) => length' = 1]_vars

TickedWhilePaused ==
    /\ op = "tick" /\ calls = 0 /\ paused /\ length = 2

\* C12 as stated: every tick whose move returns ["eat"] leaves the interval
\* strictly smaller.
EatShortensInterval ==
    [][(op' = "tick" /\ calls' = 1 /\ events' = <<"eat">>) =>
            interval' < interval]_vars

\* C12: a tick whose move returns ["eat"] leaves the interval smaller by 10
\* when it was above 10, and unchanged when it was 10.
EatShortensIntervalAboveFloor ==
    [][(op' = "tick" /\ calls' = 1 /\ events' = <<"eat">>) =>
            interval' = (IF interval > 10 THEN interval - 10 ELSE interval)]_vars

AteAtTheFloor ==
    /\ op = "tick" /\ calls = 1 /\ events = <<"eat">>
    /\ interval = 10 /\ length = 51

\* C20: the interval is a multiple of 10 from 10 to 500, and is 500 at start
\* and after every death.
IntervalInRange ==
    /\ interval \in {10 * k : k \in 1..50}
    /\ (op = "construct" \/ events = <<"die">>) => interval = 500

FloorHeldWhileEating ==
    /\ op = "tick" /\ calls = 1 /\ events = <<"eat">>
    /\ interval = 10 /\ length = 60

\* C16: at length 1 a move that returns [] leaves tail = head and length = 1
\* and the cell the snake left EMPTY; and on Map(30, 30), whose head starts at
\* (15, 15), each of the first 14 North moves with no food in the path
\* returns [] and takes the head one cell up.
LengthOneMoveKeepsTailAtHead ==
    /\ [](op = "construct" /\ width = 30 /\ height = 30 => head = <<15, 15>>)
    /\ [][(op' = "move" /\ length = 1 /\ Returned' /\ events' = <<>>) =>
            /\ tail' = head'
            /\ length' = 1
            /\ head' # head
            /\ Cell(grid', head) = EMPTY]_vars
    /\ [][(op' = "move" /\ width = 30 /\ height = 30 /\ head[2] \in 2..15) =>
            /\ Returned'
            /\ events' = <<>>
            /\ head' = <<15, head[2] - 1>>]_vars

FourteenNorthMoves ==
    /\ width = 30 /\ height = 30
    /\ Returned /\ op = "move" /\ events = <<>>
    /\ head = <<15, 1>> /\ tail = head /\ length = 1
    /\ Cardinality(NonEmptyCells(grid)) = 2

\* C15: under fair sampling a call in place_food returns whenever a cell is
\* EMPTY, and never returns when none is: a move into the Food cell of a grid
\* with no EMPTY cell stays in place_food for ever, and so does the
\* construction of a 1x1 grid.
PlaceFoodReturnsIffEmptyCell ==
    /\ (pc = "placing" /\ EmptyCells(grid) # {}) ~> (pc = "ready")
    /\ [](pc = "placing" /\ EmptyCells(grid) = {} => [](pc = "placing"))
    /\ [](width * height = 1 => pc = "placing")
    /\ [][(op' = "move" /\ head' # head /\ EmptyCells(grid) = {}) =>
            pc' = "placing" /\ EmptyCells(grid') = {}]_vars

AteOnFullGrid ==
    /\ pc = "placing" /\ op = "move"
    /\ width = 2 /\ height = 2 /\ length = 3
    /\ EmptyCells(grid) = {}
    /\ Cell(grid, head) = FOOD

====
